---- MODULE Spec2Model ----
(***************************************************************************)
(* Model of src/src/result.ts: the two Result classes Ok and Err, their    *)
(* guarded constructors, the factories ok() and err(), and the combinators *)
(* match, andThen, orElse, map, mapErr, driven by a client that also tries *)
(* to construct the classes directly and to write to existing instances.   *)
(*                                                                         *)
(* Instances live in `heap`; a reference is an index into it.  An optional *)
(* slot (an own property that may be missing, a return value that may not  *)
(* exist because the call threw) is a sequence of length 0 or 1.           *)
(***************************************************************************)
EXTENDS Integers, Sequences, FiniteSets, TLC

\* ------------------------------------------------------------------ bounds
MaxVal == 1
MaxHeap == 2

Values == 0..MaxVal

\* ---------------------------------------------------- construction marker
\* result.ts:6  the module-private marker object; it is not exported, so
\* client code can only present other objects (or nothing at all).
constructorMarker == "constructorMarker"
ForeignMarkers == {"clientObject", "undefined"}

\* result.ts:8-12  TRUE iff assertPrivateConstructor throws.
AlwaysAccepts(marker) == FALSE
assertPrivateConstructor(marker) == marker # constructorMarker

\* ------------------------------------------------------------ JS objects
\* Object.freeze: every own property read-only, no property may be added.
Freeze(o) == [o EXCEPT !.frozen = TRUE, !.extensible = FALSE]
\* Object.seal: no property may be added.
Seal(o) == [o EXCEPT !.extensible = FALSE]

\* result.ts:18-21
LeavesMutable(obj) == obj
preventAbuse(obj) == Seal(Freeze(obj))

DataFields == {"type", "isOk", "isErr", "value", "error", "extra"}
OptionalFields == {"value", "error", "extra"}

FieldDomain(name) ==
  CASE name = "type" -> {"ok", "err"}
    [] name \in {"isOk", "isErr"} -> BOOLEAN
    [] OTHER -> Values

HasOwn(o, name) == name \notin OptionalFields \/ o[name] # <<>>

\* The assignment o[name] = val on an ordinary object: an existing own
\* property is written unless it is read-only, a missing one is added unless
\* the object is not extensible.  Result: the object and whether the write
\* was rejected.
SetProp(o, name, val) ==
  LET stored == IF name \in OptionalFields THEN <<val>> ELSE val
      allowed == IF HasOwn(o, name) THEN ~o.frozen ELSE o.extensible
  IN  [obj |-> IF allowed THEN [o EXCEPT ![name] = stored] ELSE o,
       rejected |-> ~allowed]

\* --------------------------------------------------------------- handlers
\* Client callbacks.  A callback is [kind, ref]; ref is used by "captured".
\*   identity   x => x
\*   increment  x => x + 1         (wrapping inside Values)
\*   raise      x => { throw }     (the tests' flunk, the README's err handler)
\*   wrapOk     x => ok(x + 1)
\*   wrapErr    x => err(x + 1)
\*   captured   () => r            (r an instance the closure already holds)
Succ(x) == (x + 1) % (MaxVal + 1)

ValKinds == {"identity", "increment", "raise"}
ResKinds == {"wrapOk", "wrapErr", "captured", "raise"}

Fn(kind, ref) == [kind |-> kind, ref |-> ref]
NoFn == Fn("none", 0)
ValFns == {Fn(k, 0) : k \in ValKinds}
ResFns(h) == {Fn(k, 0) : k \in ResKinds \ {"captured"}}
               \cup {Fn("captured", i) : i \in 1..Len(h)}

\* An effect is what a call did: the heap after it, whether it threw, the
\* returned value or reference (absent when it threw), and the callbacks it
\* invoked, in order, each with the argument it was passed.
Effect(h, threw, ret, calls) ==
  [heap |-> h, threw |-> threw, ret |-> ret, calls |-> calls]

Call(which, arg) == [h |-> which, arg |-> arg]

\* --------------------------------------------------- classes Ok and Err
\* result.ts:85-87 and 121-123  the fields set before the constructor body.
OkFields(marker) ==
  [class |-> "Ok", type |-> "ok", isOk |-> TRUE, isErr |-> FALSE,
   value |-> <<>>, error |-> <<>>, extra |-> <<>>,
   frozen |-> FALSE, extensible |-> TRUE, marker |-> marker]

ErrFields(marker) ==
  [class |-> "Err", type |-> "err", isOk |-> FALSE, isErr |-> TRUE,
   value |-> <<>>, error |-> <<>>, extra |-> <<>>,
   frozen |-> FALSE, extensible |-> TRUE, marker |-> marker]

\* result.ts:90-94  new Ok(value, marker)
OkConstructor(h, value, marker) ==
  IF assertPrivateConstructor(marker)
  THEN Effect(h, TRUE, <<>>, <<>>)
  ELSE LET this == preventAbuse(SetProp(OkFields(marker), "value", value).obj)
       IN  Effect(Append(h, this), FALSE, <<Len(h) + 1>>, <<>>)

\* result.ts:126-130  new Err(error, marker)
ErrConstructor(h, error, marker) ==
  IF assertPrivateConstructor(marker)
  THEN Effect(h, TRUE, <<>>, <<>>)
  ELSE LET this == preventAbuse(SetProp(ErrFields(marker), "error", error).obj)
       IN  Effect(Append(h, this), FALSE, <<Len(h) + 1>>, <<>>)

\* result.ts:165-167
okMakesErr(h, value) == ErrConstructor(h, value, constructorMarker)
ok(h, value) == OkConstructor(h, value, constructorMarker)

\* result.ts:172-174
err(h, error) == ErrConstructor(h, error, constructorMarker)

\* Applying a value callback and a Result-returning callback.
ApplyVal(fn, x) ==
  CASE fn.kind = "identity" -> [threw |-> FALSE, val |-> <<x>>]
    [] fn.kind = "increment" -> [threw |-> FALSE, val |-> <<Succ(x)>>]
    [] OTHER -> [threw |-> TRUE, val |-> <<>>]

ApplyRes(h, fn, x) ==
  CASE fn.kind = "wrapOk" -> ok(h, Succ(x))
    [] fn.kind = "wrapErr" -> err(h, Succ(x))
    [] fn.kind = "captured" -> Effect(h, FALSE, <<fn.ref>>, <<>>)
    [] OTHER -> Effect(h, TRUE, <<>>, <<>>)

\* ------------------------------------------------------------ class Ok
\* result.ts:96-101
OkMatch(h, r, okH, errH) ==
  LET v == Head(h[r].value)
      a == ApplyVal(okH, v)
  IN  Effect(h, a.threw, a.val, <<Call("ok", v)>>)

\* result.ts:103-105
OkAndThen(h, r, fn) ==
  LET v == Head(h[r].value)
      a == ApplyRes(h, fn, v)
  IN  Effect(a.heap, a.threw, a.ret, <<Call("fn", v)>>)

\* result.ts:107-109
OkOrElseCallsFn(h, r, fn) ==
  LET v == Head(h[r].value)
      a == ApplyRes(h, fn, v)
  IN  Effect(a.heap, a.threw, a.ret, <<Call("fn", v)>>)
OkOrElse(h, r, fn) == Effect(h, FALSE, <<r>>, <<>>)

\* result.ts:111-113
OkMapSkipsFn(h, r, fn) ==
  LET v == Head(h[r].value)
      b == ok(h, v)
  IN  Effect(b.heap, FALSE, b.ret, <<>>)
OkMap(h, r, fn) ==
  LET v == Head(h[r].value)
      a == ApplyVal(fn, v)
  IN  IF a.threw
      THEN Effect(h, TRUE, <<>>, <<Call("fn", v)>>)
      ELSE LET b == ok(h, Head(a.val))
           IN  Effect(b.heap, b.threw, b.ret, <<Call("fn", v)>>)

\* result.ts:115-117
OkMapErrCallsFn(h, r, fn) ==
  LET v == Head(h[r].value)
      a == ApplyVal(fn, v)
  IN  IF a.threw
      THEN Effect(h, TRUE, <<>>, <<Call("fn", v)>>)
      ELSE Effect(h, FALSE, <<r>>, <<Call("fn", v)>>)
OkMapErr(h, r, fn) == Effect(h, FALSE, <<r>>, <<>>)

\* ----------------------------------------------------------- class Err
\* result.ts:132-137
ErrMatchCallsBoth(h, r, okH, errH) ==
  LET e == Head(h[r].error)
      a == ApplyVal(okH, e)
      b == ApplyVal(errH, e)
  IN  Effect(h, a.threw \/ b.threw, IF a.threw THEN <<>> ELSE b.val,
             IF a.threw THEN <<Call("ok", e)>>
                        ELSE <<Call("ok", e), Call("err", e)>>)
ErrMatch(h, r, okH, errH) ==
  LET e == Head(h[r].error)
      a == ApplyVal(errH, e)
  IN  Effect(h, a.threw, a.val, <<Call("err", e)>>)

\* result.ts:139-141
ErrAndThenCallsFn(h, r, fn) ==
  LET e == Head(h[r].error)
      a == ApplyRes(h, fn, e)
  IN  Effect(a.heap, a.threw, a.ret, <<Call("fn", e)>>)
ErrAndThen(h, r, fn) == Effect(h, FALSE, <<r>>, <<>>)

\* result.ts:143-145
ErrOrElse(h, r, fn) ==
  LET e == Head(h[r].error)
      a == ApplyRes(h, fn, e)
  IN  Effect(a.heap, a.threw, a.ret, <<Call("fn", e)>>)

\* result.ts:147-149
ErrMapCopies(h, r, fn) == err(h, Head(h[r].error))
ErrMap(h, r, fn) == Effect(h, FALSE, <<r>>, <<>>)

\* result.ts:151-153
ErrMapErrSwallows(h, r, fn) ==
  LET e == Head(h[r].error)
      a == ApplyVal(fn, e)
  IN  IF a.threw
      THEN Effect(h, FALSE, <<r>>, <<Call("fn", e)>>)
      ELSE LET b == err(h, Head(a.val))
           IN  Effect(b.heap, b.threw, b.ret, <<Call("fn", e)>>)
ErrMapErr(h, r, fn) ==
  LET e == Head(h[r].error)
      a == ApplyVal(fn, e)
  IN  IF a.threw
      THEN Effect(h, TRUE, <<>>, <<Call("fn", e)>>)
      ELSE LET b == err(h, Head(a.val))
           IN  Effect(b.heap, b.threw, b.ret, <<Call("fn", e)>>)

\* ------------------------------------------------------ method dispatch
\* r.m(...) runs the method of the class r was constructed by.
Match(h, r, okH, errH) ==
  IF h[r].class = "Ok" THEN OkMatch(h, r, okH, errH)
                       ELSE ErrMatch(h, r, okH, errH)
AndThen(h, r, fn) ==
  IF h[r].class = "Ok" THEN OkAndThen(h, r, fn) ELSE ErrAndThen(h, r, fn)
OrElse(h, r, fn) ==
  IF h[r].class = "Ok" THEN OkOrElse(h, r, fn) ELSE ErrOrElse(h, r, fn)
Map(h, r, fn) ==
  IF h[r].class = "Ok" THEN OkMap(h, r, fn) ELSE ErrMap(h, r, fn)
MapErr(h, r, fn) ==
  IF h[r].class = "Ok" THEN OkMapErr(h, r, fn) ELSE ErrMapErr(h, r, fn)

\* ------------------------------------------------------------------ state
\* heap: every instance constructed so far, in order of construction
\* born: the same instances as they were when their constructor returned
\* last: the client's latest call: what was called, with what, and its effect
VARIABLES heap, born, last

vars == <<heap, born, last>>

Refs == 1..Len(heap)

Record(op, recv, arg, okH, errH, field, eff) ==
  [op |-> op, recv |-> recv, arg |-> arg, okH |-> okH, errH |-> errH,
   field |-> field, threw |-> eff.threw, ret |-> eff.ret, calls |-> eff.calls,
   preLen |-> Len(heap)]

\* The client's call took effect `eff`: the heap grows by what it constructed.
Did(op, recv, arg, okH, errH, field, eff) ==
  /\ Len(eff.heap) <= MaxHeap
  /\ heap' = eff.heap
  /\ born' = born \o SubSeq(eff.heap, Len(heap) + 1, Len(eff.heap))
  /\ last' = Record(op, recv, arg, okH, errH, field, eff)

Init ==
  /\ heap = <<>>
  /\ born = <<>>
  /\ last = [op |-> "none", recv |-> 0, arg |-> <<>>, okH |-> NoFn,
             errH |-> NoFn, field |-> "", threw |-> FALSE, ret |-> <<>>,
             calls |-> <<>>, preLen |-> 0]

\* ---------------------------------------------------------------- actions
CallOk ==
  \E v \in Values : Did("ok", 0, <<v>>, NoFn, NoFn, "", ok(heap, v))

CallErr ==
  \E e \in Values : Did("err", 0, <<e>>, NoFn, NoFn, "", err(heap, e))

\* new Ok(v, m) and new Err(e, m) written by the client, which does not hold
\* the module's marker.
NewOk ==
  \E v \in Values, m \in ForeignMarkers :
    Did("new Ok", 0, <<v>>, NoFn, NoFn, "", OkConstructor(heap, v, m))

NewErr ==
  \E e \in Values, m \in ForeignMarkers :
    Did("new Err", 0, <<e>>, NoFn, NoFn, "", ErrConstructor(heap, e, m))

CallMatch ==
  \E r \in Refs, okH \in ValFns, errH \in ValFns :
    Did("match", r, <<>>, okH, errH, "", Match(heap, r, okH, errH))

CallAndThen ==
  \E r \in Refs : \E fn \in ResFns(heap) :
    Did("andThen", r, <<>>, fn, NoFn, "", AndThen(heap, r, fn))

CallOrElse ==
  \E r \in Refs : \E fn \in ResFns(heap) :
    Did("orElse", r, <<>>, fn, NoFn, "", OrElse(heap, r, fn))

CallMap ==
  \E r \in Refs, fn \in ValFns :
    Did("map", r, <<>>, fn, NoFn, "", Map(heap, r, fn))

CallMapErr ==
  \E r \in Refs, fn \in ValFns :
    Did("mapErr", r, <<>>, fn, NoFn, "", MapErr(heap, r, fn))

\* r[field] = val written by the client: an overwrite of type, isOk, isErr,
\* value or error, or the addition of a field the instance does not have.  In
\* strict code a rejected write throws a TypeError, in sloppy code it is
\* silently dropped.
Assign ==
  \E r \in Refs, field \in DataFields, strict \in BOOLEAN :
    \E val \in FieldDomain(field) :
      LET w == SetProp(heap[r], field, val)
      IN  /\ heap' = [heap EXCEPT ![r] = w.obj]
          /\ born' = born
          /\ last' = Record("assign", r, <<>>, NoFn, NoFn, field,
                            Effect(heap, strict /\ w.rejected, <<>>, <<>>))

Next ==
  \/ CallOk
  \/ CallErr
  \/ NewOk
  \/ NewErr
  \/ CallMatch
  \/ CallAndThen
  \/ CallOrElse
  \/ CallMap
  \/ CallMapErr
  \/ Assign

Spec == Init /\ [][Next]_vars

\* ----------------------------------------------------------------- claims
Factories == {"ok", "err"}
Combinators == {"match", "andThen", "orElse", "map", "mapErr"}

Receiver == heap[last.recv]
Returned == heap[Head(last.ret)]
IsFresh(ref) == ref > last.preLen
NothingConstructed == Len(heap) = last.preLen
OneConstructed == Len(heap) = last.preLen + 1

\* What a value callback of the given kind yields on x.
Yields(fn, x, threw, ret) ==
  CASE fn.kind = "identity" -> ~threw /\ ret = <<x>>
    [] fn.kind = "increment" -> ~threw /\ ret = <<Succ(x)>>
    [] fn.kind = "raise" -> threw /\ ret = <<>>
    [] OTHER -> FALSE

\* What a Result-returning callback of the given kind yields on x: the very
\* instance it constructed or held.
YieldsResult(fn, x) ==
  CASE fn.kind = "wrapOk" ->
         /\ ~last.threw /\ OneConstructed /\ last.ret = <<Len(heap)>>
         /\ Returned.type = "ok" /\ Returned.value = <<Succ(x)>>
    [] fn.kind = "wrapErr" ->
         /\ ~last.threw /\ OneConstructed /\ last.ret = <<Len(heap)>>
         /\ Returned.type = "err" /\ Returned.error = <<Succ(x)>>
    [] fn.kind = "captured" ->
         ~last.threw /\ NothingConstructed /\ last.ret = <<fn.ref>>
    [] fn.kind = "raise" -> last.threw /\ NothingConstructed /\ last.ret = <<>>
    [] OTHER -> FALSE

ReturnsReceiver ==
  /\ ~last.threw
  /\ last.calls = <<>>
  /\ last.ret = <<last.recv>>
  /\ NothingConstructed

\* C1: ok(v) returns an instance with type "ok", isOk true, isErr false and
\* value v; err(e) returns one with type "err", isOk false, isErr true and
\* error e.
C1_FactoryFields ==
  /\ last.op = "ok" =>
       /\ ~last.threw /\ last.ret = <<Len(heap)>> /\ OneConstructed
       /\ Returned.type = "ok" /\ Returned.isOk = TRUE /\ Returned.isErr = FALSE
       /\ Returned.value = last.arg /\ Returned.error = <<>>
  /\ last.op = "err" =>
       /\ ~last.threw /\ last.ret = <<Len(heap)>> /\ OneConstructed
       /\ Returned.type = "err" /\ Returned.isOk = FALSE /\ Returned.isErr = TRUE
       /\ Returned.error = last.arg /\ Returned.value = <<>>

C1_Witness ==
  /\ last.op = "err" /\ last.arg = <<1>>
  /\ Len(heap) = 2 /\ heap[1].isOk /\ heap[1].marker = constructorMarker

\* C2: r.match({ok, err}) invokes exactly one handler, the ok handler with
\* the value when r is Ok and the err handler with the error when r is Err,
\* never the other one, and returns what the invoked handler returned.
C2_MatchOneHandler ==
  last.op = "match" =>
    /\ Len(last.calls) = 1
    /\ NothingConstructed
    /\ Receiver.type = "ok" =>
         /\ last.calls = <<Call("ok", Head(Receiver.value))>>
         /\ Yields(last.okH, Head(Receiver.value), last.threw, last.ret)
    /\ Receiver.type = "err" =>
         /\ last.calls = <<Call("err", Head(Receiver.error))>>
         /\ Yields(last.errH, Head(Receiver.error), last.threw, last.ret)

C2_Witness ==
  /\ last.op = "match" /\ Receiver.type = "err"
  /\ last.okH.kind = "raise" /\ last.errH.kind = "increment"
  /\ ~last.threw /\ last.ret = <<Succ(Head(Receiver.error))>>

\* C3: ok(v).andThen(f) invokes f with v and returns the very Result f
\* returned; err(e).andThen(f) returns the receiver and never invokes f.
C3_AndThen ==
  last.op = "andThen" =>
    /\ Receiver.type = "ok" =>
         /\ last.calls = <<Call("fn", Head(Receiver.value))>>
         /\ YieldsResult(last.okH, Head(Receiver.value))
    /\ Receiver.type = "err" => ReturnsReceiver

C3_Witness ==
  /\ last.op = "andThen" /\ Receiver.type = "ok" /\ Receiver.value = <<0>>
  /\ last.okH.kind = "wrapOk"
  /\ Returned.type = "ok" /\ Returned.value = <<1>>

\* C4: err(e).orElse(f) invokes f with e and returns the very Result f
\* returned; ok(v).orElse(f) returns the receiver and never invokes f.
C4_OrElse ==
  last.op = "orElse" =>
    /\ Receiver.type = "err" =>
         /\ last.calls = <<Call("fn", Head(Receiver.error))>>
         /\ YieldsResult(last.okH, Head(Receiver.error))
    /\ Receiver.type = "ok" => ReturnsReceiver

C4_Witness ==
  /\ last.op = "orElse" /\ Receiver.type = "ok"
  /\ last.okH.kind = "wrapErr" /\ last.ret = <<last.recv>>

\* C5: ok(v).map(f) returns an Ok whose value is f(v); err(e).map(f) returns
\* the receiver, with the same error, and never invokes f.
C5_Map ==
  last.op = "map" =>
    /\ Receiver.type = "ok" =>
         /\ last.calls = <<Call("fn", Head(Receiver.value))>>
         /\ last.okH.kind = "raise" => last.threw /\ last.ret = <<>>
         /\ last.okH.kind # "raise" =>
              /\ ~last.threw /\ last.ret # <<>>
              /\ Returned.type = "ok" /\ Returned.isOk
              /\ Yields(last.okH, Head(Receiver.value), FALSE, Returned.value)
    /\ Receiver.type = "err" =>
         ReturnsReceiver /\ Receiver.error = born[last.recv].error

C5_Witness ==
  /\ last.op = "map" /\ Receiver.type = "ok" /\ Receiver.value = <<0>>
  /\ last.okH.kind = "increment"
  /\ last.ret # <<>> /\ Returned.value = <<1>>

\* C6: err(e).mapErr(f) returns an Err whose error is f(e); ok(v).mapErr(f)
\* returns the receiver, with the same value, and never invokes f.
C6_MapErr ==
  last.op = "mapErr" =>
    /\ Receiver.type = "err" =>
         /\ last.calls = <<Call("fn", Head(Receiver.error))>>
         /\ last.okH.kind = "raise" => last.threw /\ last.ret = <<>>
         /\ last.okH.kind # "raise" =>
              /\ ~last.threw /\ last.ret # <<>>
              /\ Returned.type = "err" /\ Returned.isErr
              /\ Yields(last.okH, Head(Receiver.error), FALSE, Returned.error)
    /\ Receiver.type = "ok" =>
         ReturnsReceiver /\ Receiver.value = born[last.recv].value

C6_Witness ==
  /\ last.op = "mapErr" /\ Receiver.type = "ok"
  /\ last.okH.kind = "increment" /\ last.ret = <<last.recv>>

\* C7: whatever factory calls, combinator calls, overwrites of value, error,
\* type, isOk and isErr and additions of a field have been attempted, every
\* instance has the payload and the discriminants it was constructed with,
\* and its three discriminants agree.
C7_Immutable ==
  \A i \in Refs :
    /\ heap[i] = born[i]
    /\ heap[i].extra = <<>>
    /\ (heap[i].type = "ok") <=> (heap[i].isOk = TRUE)
    /\ (heap[i].isOk = TRUE) <=> (heap[i].isErr = FALSE)
    /\ (heap[i].value # <<>>) <=> heap[i].isOk
    /\ (heap[i].error # <<>>) <=> heap[i].isErr

C7_Witness ==
  /\ last.op = "assign" /\ last.field = "isOk" /\ ~last.threw
  /\ Receiver.type = "err" /\ Len(heap) = 2

\* C8: new Ok / new Err with a marker other than the module's own throws and
\* yields no instance, so every instance was constructed with the module's
\* marker, which only ok() and err() pass.
C8_GuardedConstruction ==
  /\ last.op \in {"new Ok", "new Err"} =>
       last.threw /\ last.ret = <<>> /\ NothingConstructed
  /\ \A i \in Refs : heap[i].marker = constructorMarker

C8_Witness ==
  /\ last.op = "new Ok" /\ last.threw
  /\ Len(heap) = 1

\* C9 (as amended): ok and err always return an instance; a combinator
\* throws exactly when the one callback it invoked threw, and otherwise
\* returns a value.
InvokedFn ==
  IF last.calls[Len(last.calls)].h = "err" THEN last.errH ELSE last.okH

C9_ThrowsOnlyWithCallback ==
  /\ last.op \in Factories => ~last.threw /\ last.ret # <<>>
  /\ last.op \in Combinators =>
       /\ last.threw <=> (last.calls # <<>> /\ InvokedFn.kind = "raise")
       /\ ~last.threw <=> last.ret # <<>>

C9_Witness ==
  /\ last.op = "match" /\ last.threw
  /\ Receiver.type = "err" /\ last.errH.kind = "raise"

\* C9 as stated: no factory or combinator call ever throws; each returns.
C9_NeverThrows ==
  last.op \in Factories \cup Combinators => ~last.threw /\ last.ret # <<>>

\* C10 (as amended): map and mapErr return the receiver when their branch
\* does not apply and a newly constructed instance when it does; andThen and
\* orElse return the receiver when their branch does not apply and otherwise
\* whatever instance the callback returned, new or already existing (the
\* receiver included).  The receiver is never changed.
BranchApplies ==
  \/ last.op \in {"andThen", "map"} /\ Receiver.type = "ok"
  \/ last.op \in {"orElse", "mapErr"} /\ Receiver.type = "err"

C10_ReceiverOrCallbackResult ==
  last.op \in {"andThen", "orElse", "map", "mapErr"} =>
    /\ Receiver = born[last.recv]
    /\ ~last.threw =>
         /\ ~BranchApplies => last.ret = <<last.recv>> /\ NothingConstructed
         /\ BranchApplies /\ last.op \in {"map", "mapErr"} =>
              IsFresh(Head(last.ret)) /\ OneConstructed
         /\ BranchApplies /\ last.op \in {"andThen", "orElse"} =>
              IF last.okH.kind = "captured"
              THEN last.ret = <<last.okH.ref>> /\ NothingConstructed
              ELSE IsFresh(Head(last.ret)) /\ OneConstructed

C10_Witness ==
  /\ last.op = "andThen" /\ Receiver.type = "ok"
  /\ last.okH.kind = "captured" /\ ~last.threw
  /\ ~IsFresh(Head(last.ret)) /\ Head(last.ret) # last.recv

\* C10 as stated: each of the four returns the receiver exactly when its
\* branch does not apply and an instance that did not exist before the call
\* exactly when it does.
C10_ReceiverOrFresh ==
  last.op \in {"andThen", "orElse", "map", "mapErr"} /\ ~last.threw =>
    \/ ~BranchApplies /\ last.ret = <<last.recv>>
    \/ BranchApplies /\ IsFresh(Head(last.ret))

====
